---- MODULE Spec2Model ----
(***************************************************************************)
(* Model of the node-to-client chain-sync source (sources/n2c/run.rs):     *)
(* the ChainObserver (rollback buffer, block store, confirmation by       *)
(* depth), the session loop, the session bootstrap and the retry wrapper.  *)
(***************************************************************************)
EXTENDS Integers, Sequences, FiniteSets, TLC

(***************************************************************************)
(* Bounds of the model.                                                    *)
(***************************************************************************)
\* RollForward / RollBackward messages the transport delivers in one run
MaxMsgs == 4
\* the same, in the runs that explore the retry wrapper
RetryMsgs == 2
\* largest confirmation depth (config.min_depth) explored
MaxDepth == 2
\* config.retry_policy.chainsync_max_retries explored
ChainsyncMaxRetries == 3
RollbackMsgs == 5
FairMsgs == 1

Slots == {10, 11, 12}
Hashes == {"a", "b"}

(***************************************************************************)
(* Points, block contents, events.                                         *)
(***************************************************************************)
Origin == [kind |-> "Origin", slot |-> 0, hash |-> "-"]

Specific(s, h) == [kind |-> "Specific", slot |-> s, hash |-> h]

\* the blocks the peer can announce: one per slot, and a second block
\* sharing the first slot (an epoch-boundary block and its successor)
SpecificPoints ==
    {Specific(s, h) : s \in Slots, h \in {"a"}}
        \cup {Specific(10, h) : h \in Hashes}

Points == SpecificPoints \cup {Origin}

slot_or_default(p) == IF p.kind = "Origin" THEN 0 ELSE p.slot

\* raw block bytes: a well-formed block carries its slot and header hash
Garbage == <<>>
Encode(p) == <<p.slot, p.hash>>
Contents == {Encode(p) : p \in SpecificPoints} \cup {Garbage}

MultiEraBlock_decode(content) ==
    IF Len(content) = 2
    THEN [ok |-> TRUE, slot |-> content[1], hash |-> content[2]]
    ELSE [ok |-> FALSE, slot |-> 0, hash |-> "-"]

BlockEvent(bytes) ==
    LET b == MultiEraBlock_decode(bytes)
    IN  [kind |-> "block", point |-> Specific(b.slot, b.hash)]

RollbackEvent(p) == [kind |-> "rollback", point |-> p]

\* HashMap helpers
MapInsert(m, k, v) == [x \in DOMAIN m \cup {k} |-> IF x = k THEN v ELSE m[x]]
MapRemove(m, k) == [x \in DOMAIN m \ {k} |-> m[x]]
EmptyMap == [x \in {} |-> Garbage]

Min(a, b) == IF a <= b THEN a ELSE b

RECURSIVE Pow(_, _)
Pow(b, e) == IF e = 0 THEN 1 ELSE b * Pow(b, e - 1)

(***************************************************************************)
(* Configuration.                                                          *)
(***************************************************************************)
NoFinalize == [kind |-> "none", n |-> 0, point |-> Origin]
FinalizeConfigs ==
    { NoFinalize,
      [kind |-> "count", n |-> 1, point |-> Origin],
      [kind |-> "point", n |-> 0, point |-> Specific(11, "a")] }

\* config.retry_policy.chainsync_max_backoff explored (seconds); 60 is also
\* what do_chainsync takes when no retry policy is configured
MaxBackoffs == {3, 60}

VARIABLES
    min_depth,        \* config.min_depth
    finalize_config,  \* config.finalize
    max_retries,      \* policy.max_retries
    max_backoff,      \* policy.max_backoff (seconds)
    rstate,           \* retry wrapper: Attempting, BackingOff, StoppedOk, StoppedErr, Panicked
    attempts,         \* attempts started so far
    delays,           \* backoff delays slept so far (seconds)
    pc,               \* position inside the running attempt
    outcome,          \* result of the attempt that ended last
    chain_buffer,     \* ChainObserver.chain_buffer, oldest first
    blocks,           \* ChainObserver.blocks
    block_count,      \* ChainObserver.block_count
    events,           \* what EventSink received, in order
    tip_reports,      \* calls of track_chain_tip
    cursor,           \* slot of the position the peer last moved the client to
    msgs,             \* RollForward / RollBackward messages delivered
    budget,           \* messages the transport delivers in this run
    session_from,     \* events the sink held when this attempt's observer was built
    last,             \* the message processed last and what it did
    boot,             \* what the bootstrap of this attempt was answered
    origin,           \* the step at which this attempt ended
    requests          \* calls of request_next in this attempt

config == <<min_depth, finalize_config, max_retries, max_backoff, budget>>
observer == <<chain_buffer, blocks, block_count>>
vars == <<min_depth, finalize_config, max_retries, max_backoff, rstate, attempts,
          delays, pc, outcome, chain_buffer, blocks, block_count, events,
          tip_reports, cursor, msgs, budget, session_from, last, boot,
          origin, requests>>

\* nothing answered yet; events0 is what the sink held when the attempt began
NoBoot(n) == [handshake |-> "none", intersect |-> "none", events0 |-> n]

NoMessage ==
    [op |-> "none", point |-> Origin, effect |-> "none", result |-> "none",
     attempt |-> 0, pushed |-> <<>>, ready |-> <<>>, pre_buffer |-> <<>>,
     pre_blocks |-> {}, pre_events |-> 0, pre_count |-> 0, pre_tips |-> 0]

(***************************************************************************)
(* RollbackBuffer (pallas chainsync::RollbackBuffer), a queue of points,   *)
(* oldest first.                                                           *)
(***************************************************************************)
roll_forward(buf, point) == Append(buf, point)

\* removes and returns the points that have at least `depth` newer points
pop_with_depth(buf, depth) ==
    LET n == Len(buf)
    IN  IF n >= depth
        THEN [ready |-> SubSeq(buf, 1, n - depth),
              rest |-> SubSeq(buf, n - depth + 1, n)]
        ELSE [ready |-> <<>>, rest |-> buf]

\* index of the first occurrence of `point`, 0 when it is not buffered
position(buf, point) ==
    LET hits == {i \in 1..Len(buf) : buf[i] = point}
    IN  IF hits = {} THEN 0 ELSE CHOOSE i \in hits : \A j \in hits : i <= j

\* variant: scope decided by slot (at or after the oldest point's slot)
roll_back_by_slot(buf, point) ==
    LET keep == {i \in 1..Len(buf) :
                    slot_or_default(buf[i]) <= slot_or_default(point)}
    IN  IF buf # <<>> /\ slot_or_default(point) >= slot_or_default(buf[1])
        THEN [effect |-> "Handled", buffer |-> SubSeq(buf, 1, Cardinality(keep))]
        ELSE [effect |-> "OutOfScope", buffer |-> <<>>]

roll_back(buf, point) ==
    LET x == position(buf, point)
    IN  IF x # 0
        THEN [effect |-> "Handled", buffer |-> SubSeq(buf, 1, x)]
        ELSE [effect |-> "OutOfScope", buffer |-> <<>>]

(***************************************************************************)
(* Finalize policy (sources::should_finalize).                             *)
(***************************************************************************)
should_finalize(cfg, point, count) ==
    \/ cfg.kind = "count" /\ count >= cfg.n
    \/ cfg.kind = "point" /\ point = cfg.point

(***************************************************************************)
(* ChainObserver.                                                          *)
(***************************************************************************)
\* self.blocks.insert(point.clone(), content.into())
store_block(blks, point, content) == MapInsert(blks, point, content)

\* variant: threshold off by one
ready_points_short(buf) ==
    pop_with_depth(buf, IF min_depth > 0 THEN min_depth - 1 ELSE 0)

\* variant: one more point than min_depth is held back
ready_points_deep(buf) == pop_with_depth(buf, min_depth + 1)

\* self.chain_buffer.pop_with_depth(self.min_depth)
ready_points(buf) == pop_with_depth(buf, min_depth)

\* variant: the finalize policy sees the count before the increment
RECURSIVE emit_ready_stale_count(_, _, _, _, _)
emit_ready_stale_count(ready, blks, count, evs, sinkOk) ==
    IF ready = <<>>
    THEN [result |-> "Proceed", cause |-> "none",
          blocks |-> blks, count |-> count, events |-> evs]
    ELSE LET point == Head(ready)
         IN  IF point \notin DOMAIN blks
             THEN [result |-> "Panic", cause |-> "missing_block",
                   blocks |-> blks, count |-> count,
                   events |-> evs]
             ELSE IF ~sinkOk
             THEN [result |-> "Err", cause |-> "sink",
                   blocks |-> MapRemove(blks, point),
                   count |-> count, events |-> evs]
             ELSE LET evs2 == Append(evs, BlockEvent(blks[point]))
                      count2 == count + 1
                  IN  IF should_finalize(finalize_config, point, count)
                      THEN [result |-> "DropOut", cause |-> "finalize",
                            blocks |-> MapRemove(blks, point),
                            count |-> count2, events |-> evs2]
                      ELSE emit_ready_stale_count(Tail(ready),
                                                  MapRemove(blks, point),
                                                  count2, evs2, sinkOk)

\* the loop over the ready points: remove the block, write it to the sink,
\* count it, evaluate the finalize policy
RECURSIVE emit_ready(_, _, _, _, _)
emit_ready(ready, blks, count, evs, sinkOk) ==
    IF ready = <<>>
    THEN [result |-> "Proceed", cause |-> "none",
          blocks |-> blks, count |-> count, events |-> evs]
    ELSE LET point == Head(ready)
         IN  IF point \notin DOMAIN blks
             THEN \* expect("required block not found in memory") panics
                  [result |-> "Panic", cause |-> "missing_block",
                   blocks |-> blks, count |-> count,
                   events |-> evs]
             ELSE IF ~sinkOk
             THEN \* unknown_block_to_events(..)? fails
                  [result |-> "Err", cause |-> "sink",
                   blocks |-> MapRemove(blks, point),
                   count |-> count, events |-> evs]
             ELSE LET evs2 == Append(evs, BlockEvent(blks[point]))
                      count2 == count + 1
                  IN  IF should_finalize(finalize_config, point, count2)
                      THEN [result |-> "DropOut", cause |-> "finalize",
                            blocks |-> MapRemove(blks, point),
                            count |-> count2, events |-> evs2]
                      ELSE emit_ready(Tail(ready), MapRemove(blks, point),
                                      count2, evs2, sinkOk)

\* variant: the tip is reported whatever the outcome of the message
on_roll_forward_tip_always(buf, blks, count, evs, content, sinkOk) ==
    LET block == MultiEraBlock_decode(content)
    IN  IF ~block.ok
        THEN [result |-> "Err", cause |-> "decode", buffer |-> buf,
              blocks |-> blks, count |-> count,
              events |-> evs, tip |-> TRUE, pushed |-> buf, ready |-> <<>>,
              point |-> Origin]
        ELSE LET point == Specific(block.slot, block.hash)
                 blks1 == store_block(blks, point, content)
                 buf1 == roll_forward(buf, point)
                 pop == ready_points(buf1)
                 out == emit_ready(pop.ready, blks1, count, evs, sinkOk)
             IN  [result |-> out.result, cause |-> out.cause,
                  buffer |-> pop.rest,
                  blocks |-> out.blocks, count |-> out.count,
                  events |-> out.events, tip |-> TRUE,
                  pushed |-> buf1, ready |-> pop.ready, point |-> point]

on_roll_forward(buf, blks, count, evs, content, sinkOk) ==
    LET block == MultiEraBlock_decode(content)
    IN  IF ~block.ok
        THEN [result |-> "Err", cause |-> "decode", buffer |-> buf,
              blocks |-> blks, count |-> count,
              events |-> evs, tip |-> FALSE, pushed |-> buf, ready |-> <<>>,
              point |-> Origin]
        ELSE LET point == Specific(block.slot, block.hash)
                 blks1 == store_block(blks, point, content)
                 buf1 == roll_forward(buf, point)
                 pop == ready_points(buf1)
                 out == emit_ready(pop.ready, blks1, count, evs, sinkOk)
             IN  [result |-> out.result, cause |-> out.cause,
                  buffer |-> pop.rest,
                  blocks |-> out.blocks, count |-> out.count,
                  events |-> out.events, tip |-> (out.result = "Proceed"),
                  pushed |-> buf1, ready |-> pop.ready, point |-> point]

\* variant: comparison inverted
drain_blocks_inverted(blks, point) ==
    [x \in {k \in DOMAIN blks : slot_or_default(k) >= slot_or_default(point)}
        |-> blks[x]]

\* variant: the rollback point's own slot is dropped too
drain_blocks_strict(blks, point) ==
    [x \in {k \in DOMAIN blks : slot_or_default(k) < slot_or_default(point)}
        |-> blks[x]]

\* self.blocks.retain(|x, _| x.slot_or_default() <= point.slot_or_default())
drain_blocks(blks, point) ==
    [x \in {k \in DOMAIN blks : slot_or_default(k) <= slot_or_default(point)}
        |-> blks[x]]

\* variant: the two arms of the match exchanged
on_rollback_swapped(buf, blks, evs, point, sinkOk) ==
    LET rb == roll_back(buf, point)
    IN  IF rb.effect = "OutOfScope"
        THEN [result |-> "Ok", cause |-> "none",
              effect |-> rb.effect, buffer |-> rb.buffer,
              blocks |-> drain_blocks(blks, point), events |-> evs]
        ELSE IF sinkOk
        THEN [result |-> "Ok", cause |-> "none",
              effect |-> rb.effect, buffer |-> rb.buffer,
              blocks |-> EmptyMap, events |-> Append(evs, RollbackEvent(point))]
        ELSE [result |-> "Err", cause |-> "sink",
              effect |-> rb.effect, buffer |-> rb.buffer,
              blocks |-> EmptyMap, events |-> evs]

\* variant: an out-of-scope rollback is not announced downstream
on_rollback_silent(buf, blks, evs, point, sinkOk) ==
    LET rb == roll_back(buf, point)
    IN  IF rb.effect = "Handled"
        THEN [result |-> "Ok", cause |-> "none",
              effect |-> rb.effect, buffer |-> rb.buffer,
              blocks |-> drain_blocks(blks, point), events |-> evs]
        ELSE [result |-> "Ok", cause |-> "none",
              effect |-> rb.effect, buffer |-> rb.buffer,
              blocks |-> EmptyMap, events |-> evs]

on_rollback(buf, blks, evs, point, sinkOk) ==
    LET rb == roll_back(buf, point)
    IN  IF rb.effect = "Handled"
        THEN [result |-> "Ok", cause |-> "none",
              effect |-> rb.effect, buffer |-> rb.buffer,
              blocks |-> drain_blocks(blks, point), events |-> evs]
        ELSE IF sinkOk
        THEN [result |-> "Ok", cause |-> "none",
              effect |-> rb.effect, buffer |-> rb.buffer,
              blocks |-> EmptyMap, events |-> Append(evs, RollbackEvent(point))]
        ELSE \* append_rollback_event(point)? fails
             [result |-> "Err", cause |-> "sink",
              effect |-> rb.effect, buffer |-> rb.buffer,
              blocks |-> EmptyMap, events |-> evs]

\* on_next_message, RollForward arm
forward_continuation(r) ==
    CASE r = "Proceed" -> "Proceed"
      [] r = "DropOut" -> "DropOut"
      [] r = "Err" -> "Other"
      [] OTHER -> "Panic"

\* variant: a handled rollback ends the session like a finalize does
rollback_continuation_dropout(r) == IF r = "Ok" THEN "DropOut" ELSE "Other"

\* on_next_message, RollBackward arm
rollback_continuation(r) == IF r = "Ok" THEN "Proceed" ELSE "Other"

\* observe_forever: what the loop does with on_next_message's answer
loop_pc(k) == IF k = "Proceed" THEN "loop" ELSE "ended"
loop_outcome(k, old) ==
    CASE k = "Proceed" -> old
      [] k = "DropOut" -> "Ok"
      [] OTHER -> k

(***************************************************************************)
(* Retry wrapper (do_chainsync around utils::retry::retry_operation).      *)
(***************************************************************************)
\* variant: a fatal failure is handed to the retry policy as an error
classify_attempt_retry_fatal(res) ==
    CASE res = "Ok" -> "Ok"
      [] res = "Other" -> "Err"
      [] res = "Recoverable" -> "Err"
      [] OTHER -> "Panic"

\* variant: a recoverable failure is logged and swallowed like a fatal one
classify_attempt_swallow(res) ==
    CASE res = "Ok" -> "Ok"
      [] res = "Other" -> "Ok"
      [] res = "Recoverable" -> "Ok"
      [] OTHER -> "Panic"

\* the closure do_chainsync hands to retry_operation
classify_attempt(res) ==
    CASE res = "Ok" -> "Ok"
      [] res = "Other" -> "Ok"
      [] res = "Recoverable" -> "Err"
      [] OTHER -> "Panic"

\* variant: unit and factor exchanged
retry_policy_swapped ==
    [max_retries |-> max_retries, backoff_unit |-> 2, backoff_factor |-> 1,
     max_backoff |-> max_backoff]

\* the retry::Policy do_chainsync builds (durations in seconds)
retry_policy ==
    [max_retries |-> max_retries, backoff_unit |-> 1, backoff_factor |-> 2,
     max_backoff |-> max_backoff]

\* delay slept after the k-th failed attempt
compute_backoff_delay(policy, k) ==
    Min(policy.backoff_unit * Pow(policy.backoff_factor, k - 1),
        policy.max_backoff)

(***************************************************************************)
(* Initial state: do_chainsync was called, the first attempt starts.       *)
(***************************************************************************)
Start ==
    /\ min_depth \in 0..MaxDepth
    /\ finalize_config \in FinalizeConfigs
    /\ rstate = "Attempting"
    /\ attempts = 1
    /\ delays = <<>>
    /\ pc = "setup"
    /\ outcome = "none"
    /\ chain_buffer = <<>>
    /\ blocks = EmptyMap
    /\ block_count = 0
    /\ events = <<>>
    /\ tip_reports = 0
    /\ cursor = 0
    /\ msgs = 0
    /\ session_from = 0
    /\ last = NoMessage
    /\ boot = NoBoot(0)
    /\ origin = "none"
    /\ requests = 0

\* one attempt allowed: the runs that explore the ChainObserver
Init ==
    /\ Start
    /\ max_retries = 1
    /\ max_backoff = 60
    /\ budget = MaxMsgs

\* several attempts: the runs that explore the retry wrapper
InitRetry ==
    /\ Start
    /\ max_retries = ChainsyncMaxRetries
    /\ max_backoff \in MaxBackoffs
    /\ budget = RetryMsgs

\* one attempt with depth 1 and no finalize policy, and five messages: the
\* runs that follow a chain through an out-of-scope rollback
InitRollback ==
    /\ Start
    /\ min_depth = 1
    /\ finalize_config = NoFinalize
    /\ max_retries = 1
    /\ max_backoff = 60
    /\ budget = RollbackMsgs

\* several attempts with one message between them: the runs that follow
\* the retry wrapper to its end
InitRetryFair ==
    /\ Start
    /\ max_retries = ChainsyncMaxRetries
    /\ max_backoff \in MaxBackoffs
    /\ budget = FairMsgs

Running(at) == rstate = "Attempting" /\ pc \in at

EndAttempt(res, at) == pc' = "ended" /\ outcome' = res /\ origin' = at

\* variant: one observer built before the first attempt and used by all
new_observer_shared ==
    [chain_buffer |-> chain_buffer, blocks |-> blocks,
     block_count |-> block_count]

\* observe_forever: the ChainObserver it builds
new_observer ==
    [chain_buffer |-> <<>>, blocks |-> EmptyMap, block_count |-> 0]

(***************************************************************************)
(* do_chainsync_attempt: session bootstrap.                                *)
(***************************************************************************)
setup_multiplexer(ok) ==
    /\ Running({"setup"})
    /\ IF ok THEN pc' = "handshake" /\ UNCHANGED <<outcome, origin>>
             ELSE EndAttempt("Recoverable", "setup_multiplexer")
    /\ UNCHANGED <<config, rstate, attempts, delays, observer, events,
                   tip_reports, cursor, msgs, session_from, last, boot,
                   requests>>

\* variant: any confirmation of the peer counts as an agreement
handshake_result_lenient(answer) ==
    CASE answer = "Accepted" -> "Ok"
      [] answer = "Refused" -> "Ok"
      [] OTHER -> "Recoverable"

\* do_handshake: Confirmation::Accepted, another confirmation, transport error
handshake_result(answer) ==
    CASE answer = "Accepted" -> "Ok"
      [] answer = "Refused" -> "Other"
      [] OTHER -> "Recoverable"

do_handshake(answer) ==
    /\ Running({"handshake"})
    /\ boot' = [boot EXCEPT !.handshake = answer]
    /\ LET res == handshake_result(answer)
       IN  IF res = "Ok" THEN pc' = "intersect" /\ UNCHANGED <<outcome, origin>>
                         ELSE EndAttempt(res, "do_handshake")
    /\ UNCHANGED <<config, rstate, attempts, delays, observer, events,
                   tip_reports, cursor, msgs, session_from, last, requests>>

\* intersect_starting_point, then observe_forever builds a fresh observer
intersect_starting_point(answer) ==
    /\ Running({"intersect"})
    /\ boot' = [boot EXCEPT !.intersect = answer]
    /\ CASE answer = "Some" ->
                /\ pc' = "loop"
                /\ UNCHANGED <<outcome, origin>>
                /\ chain_buffer' = new_observer.chain_buffer
                /\ blocks' = new_observer.blocks
                /\ block_count' = new_observer.block_count
                /\ cursor' = 0
                /\ session_from' = Len(events)
                /\ last' = NoMessage
         [] answer = "None" ->
                /\ EndAttempt("Other", "intersect_starting_point")
                /\ UNCHANGED <<observer, cursor, session_from, last>>
         [] OTHER ->
                /\ EndAttempt("Recoverable", "intersect_starting_point")
                /\ UNCHANGED <<observer, cursor, session_from, last>>
    /\ UNCHANGED <<config, rstate, attempts, delays, events, tip_reports, msgs,
                   requests>>

(***************************************************************************)
(* observe_forever: the session loop.                                      *)
(***************************************************************************)
request_next_fails ==
    /\ Running({"loop"})
    /\ EndAttempt("Recoverable", "request_next")
    /\ requests' = requests + 1
    /\ UNCHANGED <<config, rstate, attempts, delays, observer, events,
                   tip_reports, cursor, msgs, session_from, last, boot>>

\* NextResponse::Await: block in recv_while_must_reply
next_await ==
    /\ Running({"loop"})
    /\ pc' = "await"
    /\ requests' = requests + 1
    /\ UNCHANGED <<config, rstate, attempts, delays, outcome, observer, events,
                   tip_reports, cursor, msgs, session_from, last, boot, origin>>

recv_while_must_reply_fails ==
    /\ Running({"await"})
    /\ EndAttempt("Recoverable", "recv_while_must_reply")
    /\ UNCHANGED <<config, rstate, attempts, delays, observer, events,
                   tip_reports, cursor, msgs, session_from, last, boot,
                   requests>>

\* a message answers request_next, or the receive that followed an Await
requests_after_message == IF pc = "loop" THEN requests + 1 ELSE requests

\* NextResponse::RollForward(content, tip)
next_roll_forward(content, sinkOk) ==
    /\ Running({"loop", "await"})
    /\ msgs < budget
    /\ LET b == MultiEraBlock_decode(content)
           r == on_roll_forward(chain_buffer, blocks, block_count, events,
                                content, sinkOk)
           k == forward_continuation(r.result)
       IN  /\ b.ok => b.slot >= cursor
           /\ chain_buffer' = r.buffer
           /\ blocks' = r.blocks
           /\ block_count' = r.count
           /\ events' = r.events
           /\ tip_reports' = IF r.tip THEN tip_reports + 1 ELSE tip_reports
           /\ cursor' = IF b.ok THEN b.slot ELSE cursor
           /\ pc' = loop_pc(k)
           /\ outcome' = loop_outcome(k, outcome)
           /\ origin' = IF k = "Proceed" THEN origin ELSE r.cause
           /\ last' = [op |-> "roll_forward", point |-> r.point,
                       effect |-> "none", result |-> k, attempt |-> attempts,
                       pushed |-> r.pushed, ready |-> r.ready,
                       pre_buffer |-> chain_buffer,
                       pre_blocks |-> DOMAIN blocks,
                       pre_events |-> Len(events), pre_count |-> block_count,
                       pre_tips |-> tip_reports]
    /\ msgs' = msgs + 1
    /\ requests' = requests_after_message
    /\ UNCHANGED <<config, rstate, attempts, delays, session_from, boot>>

\* NextResponse::RollBackward(point, tip)
next_roll_backward(point, sinkOk) ==
    /\ Running({"loop", "await"})
    /\ msgs < budget
    /\ LET r == on_rollback(chain_buffer, blocks, events, point, sinkOk)
           k == rollback_continuation(r.result)
       IN  /\ chain_buffer' = r.buffer
           /\ blocks' = r.blocks
           /\ events' = r.events
           /\ pc' = loop_pc(k)
           /\ outcome' = loop_outcome(k, outcome)
           /\ origin' = IF k = "Proceed" THEN origin ELSE r.cause
           /\ last' = [op |-> "rollback", point |-> point,
                       effect |-> r.effect, result |-> k, attempt |-> attempts,
                       pushed |-> <<>>, ready |-> <<>>,
                       pre_buffer |-> chain_buffer,
                       pre_blocks |-> DOMAIN blocks,
                       pre_events |-> Len(events), pre_count |-> block_count,
                       pre_tips |-> tip_reports]
    /\ cursor' = slot_or_default(point)
    /\ msgs' = msgs + 1
    /\ requests' = requests_after_message
    /\ UNCHANGED <<config, rstate, attempts, delays, block_count, tip_reports,
                   session_from, boot>>

(***************************************************************************)
(* retry_operation.                                                        *)
(***************************************************************************)
\* the attempt returned: stop, or sleep the backoff delay
retry_attempt_returned ==
    /\ Running({"ended"})
    /\ LET res == classify_attempt(outcome)
       IN  CASE res = "Ok" -> rstate' = "StoppedOk" /\ delays' = delays
             [] res = "Err" ->
                    /\ rstate' = "BackingOff"
                    /\ delays' = Append(delays, compute_backoff_delay(retry_policy, attempts))
             [] OTHER -> rstate' = "Panicked" /\ delays' = delays
    /\ pc' = "none"
    /\ UNCHANGED <<config, attempts, outcome, observer, events, tip_reports,
                   cursor, msgs, session_from, last, boot, origin, requests>>

\* the delay elapsed: next attempt, or give up
retry_backoff_elapsed ==
    /\ rstate = "BackingOff"
    /\ IF attempts < retry_policy.max_retries
       THEN /\ rstate' = "Attempting"
            /\ attempts' = attempts + 1
            /\ pc' = "setup"
            /\ outcome' = "none"
            /\ boot' = NoBoot(Len(events))
            /\ origin' = "none"
            /\ requests' = 0
       ELSE /\ rstate' = "StoppedErr"
            /\ UNCHANGED <<attempts, pc, outcome, boot, origin, requests>>
    /\ UNCHANGED <<config, delays, observer, events, tip_reports, cursor,
                   msgs, session_from, last>>

Next ==
    \/ \E ok \in BOOLEAN : setup_multiplexer(ok)
    \/ \E a \in {"Accepted", "Refused", "Err"} : do_handshake(a)
    \/ \E a \in {"Some", "None", "Err"} : intersect_starting_point(a)
    \/ request_next_fails
    \/ next_await
    \/ recv_while_must_reply_fails
    \/ \E c \in Contents, sinkOk \in BOOLEAN : next_roll_forward(c, sinkOk)
    \/ \E p \in Points, sinkOk \in BOOLEAN : next_roll_backward(p, sinkOk)
    \/ retry_attempt_returned
    \/ retry_backoff_elapsed

Spec == Init /\ [][Next]_vars

SpecRetry == InitRetry /\ [][Next]_vars

SpecRollback == InitRollback /\ [][Next]_vars

\* retry_operation runs on one thread: once the attempt has returned it goes
\* on to classify the result, and a sleep that was started ends
SpecRetryFair ==
    /\ InitRetryFair
    /\ [][Next]_vars
    /\ WF_vars(retry_attempt_returned)
    /\ WF_vars(retry_backoff_elapsed)

(***************************************************************************)
(* Properties.                                                             *)
(***************************************************************************)
Range(seq) == {seq[i] : i \in 1..Len(seq)}

\* what the sink received from the observer of the current attempt
SessionEvents == SubSeq(events, session_from + 1, Len(events))

\* what the sink received while the last message was processed
Emitted == SubSeq(events, last.pre_events + 1, Len(events))

IsBlock(e) == e.kind = "block"
IsRollback(e) == e.kind = "rollback"

\* C1: every block emitted by on_roll_forward is a point pop_with_depth
\* returned, and at that moment the buffer held at least min_depth strictly
\* newer points (index i of a buffer of n points has n - i newer points).
C1_EmittedAtDepth ==
    last.op = "roll_forward" =>
        \A i \in 1..Len(Emitted) :
            /\ IsBlock(Emitted[i])
            /\ i <= Len(last.ready)
            /\ Emitted[i].point = last.pushed[i]
            /\ Len(last.pushed) - i >= min_depth

C1_Witness ==
    /\ last.op = "roll_forward"
    /\ min_depth = 2
    /\ Len(Emitted) = 1
    /\ Len(last.pushed) = 3

\* C2 as stated, on the sessions it singles out (an out-of-scope rollback
\* followed by new roll-forwards): a point confirmed after the rollback has
\* a strictly larger slot than, and differs from, every point confirmed
\* before it.
C2_StrictlyIncreasingOnce ==
    \A i, k, j \in 1..Len(SessionEvents) :
        ( /\ i < k
          /\ k < j
          /\ IsBlock(SessionEvents[i])
          /\ IsRollback(SessionEvents[k])
          /\ IsBlock(SessionEvents[j]) ) =>
            /\ SessionEvents[i].point.slot < SessionEvents[j].point.slot
            /\ SessionEvents[i].point # SessionEvents[j].point

\* C2, amended: confirmed points emitted with no rollback event between them
\* are in non-decreasing slot order.
C2_OrderedBetweenRollbacks ==
    \A i, j \in 1..Len(SessionEvents) :
        ( /\ i < j
          /\ IsBlock(SessionEvents[i])
          /\ IsBlock(SessionEvents[j])
          /\ \A k \in (i + 1)..(j - 1) : ~IsRollback(SessionEvents[k]) ) =>
            SessionEvents[i].point.slot <= SessionEvents[j].point.slot

\* two blocks in order, after an out-of-scope rollback restarted emission
\* at an earlier slot
C2_Witness ==
    /\ Len(SessionEvents) = 4
    /\ IsBlock(SessionEvents[1])
    /\ IsRollback(SessionEvents[2])
    /\ IsBlock(SessionEvents[3])
    /\ IsBlock(SessionEvents[4])
    /\ SessionEvents[3].point.slot < SessionEvents[1].point.slot
    /\ SessionEvents[3].point.slot < SessionEvents[4].point.slot

\* C3 as stated: after every message processed with outcome Proceed the keys
\* of the block store are exactly the points of the rollback buffer.
C3_StoreEqualsBuffer ==
    (last.op \in {"roll_forward", "rollback"} /\ last.result = "Proceed") =>
        DOMAIN blocks = Range(chain_buffer)

\* C4 as stated: roll_back(p) is Handled iff p is at or after the oldest
\* retained point (by slot), OutOfScope otherwise.
C4_HandledIffAtOrAfterOldest ==
    last.op = "rollback" =>
        ( last.effect = "Handled" <=>
            /\ last.pre_buffer # <<>>
            /\ slot_or_default(last.point) >= slot_or_default(last.pre_buffer[1]) )

\* C4, amended: roll_back(p) is Handled iff p itself is one of the buffered
\* points, OutOfScope otherwise (so for an empty buffer and for a point that
\* is no longer buffered, whatever its slot).
C4_HandledIffBuffered ==
    last.op = "rollback" =>
        /\ last.effect \in {"Handled", "OutOfScope"}
        /\ last.effect = "Handled" <=> last.point \in Range(last.pre_buffer)

\* an out-of-scope rollback to a point that is not buffered although its slot
\* is not before the oldest buffered point's
C4_Witness ==
    /\ last.op = "rollback"
    /\ last.effect = "OutOfScope"
    /\ last.pre_buffer # <<>>
    /\ slot_or_default(last.point) >= slot_or_default(last.pre_buffer[1])

\* C5: after a Handled rollback to p the buffer is what it was up to and
\* including p (p is its newest point), the block store keeps exactly the
\* entries whose slot is <= p's slot, and nothing was emitted or counted.
C5_HandledRollback ==
    (last.op = "rollback" /\ last.effect = "Handled") =>
        /\ chain_buffer =
               SubSeq(last.pre_buffer, 1, position(last.pre_buffer, last.point))
        /\ chain_buffer # <<>>
        /\ chain_buffer[Len(chain_buffer)] = last.point
        /\ \A k \in DOMAIN blocks :
               slot_or_default(k) <= slot_or_default(last.point)
        /\ DOMAIN blocks =
               {k \in last.pre_blocks :
                   slot_or_default(k) <= slot_or_default(last.point)}
        /\ Emitted = <<>>
        /\ block_count = last.pre_count
        /\ last.result = "Proceed"

\* a Handled rollback that discarded a newer point and its stored block
C5_Witness ==
    /\ last.op = "rollback"
    /\ last.effect = "Handled"
    /\ Len(chain_buffer) < Len(last.pre_buffer)
    /\ DOMAIN blocks # last.pre_blocks

\* C6: after an OutOfScope rollback to p the buffer and the block store are
\* empty and the sink received exactly one event for the message, the
\* rollback event carrying p (none when the write to the sink failed, which
\* ends the attempt); a Handled rollback sends no event.
C6_OutOfScopeRollback ==
    last.op = "rollback" =>
        /\ last.effect = "OutOfScope" =>
               /\ chain_buffer = <<>>
               /\ DOMAIN blocks = {}
               /\ last.result = "Proceed" => Emitted = <<RollbackEvent(last.point)>>
               /\ last.result # "Proceed" =>
                      Emitted = <<>> /\ last.result = "Other"
        /\ last.effect = "Handled" => Emitted = <<>>

\* an OutOfScope rollback that cleared buffered points and stored blocks
C6_Witness ==
    /\ last.op = "rollback"
    /\ last.effect = "OutOfScope"
    /\ last.result = "Proceed"
    /\ last.pre_buffer # <<>>
    /\ last.pre_blocks # {}
    /\ Emitted = <<RollbackEvent(last.point)>>

\* the example of the claim: min_depth 2, roll-forwards to slots 10, 11, 12,
\* the block of slot 10 emitted, then a rollback to the point of slot 11
C7_Scenario ==
    /\ min_depth = 2
    /\ msgs = 4
    /\ last.op = "rollback"
    /\ last.point = Specific(11, "a")
    /\ last.pre_buffer = <<Specific(11, "a"), Specific(12, "a")>>
    /\ last.pre_blocks = {Specific(11, "a"), Specific(12, "a")}
    /\ Len(SessionEvents) = 1
    /\ IsBlock(SessionEvents[1])
    /\ SessionEvents[1].point.slot = 10

\* C7 as stated: the rollback is Handled and the block store is then empty.
C7_StoreEmptyAfterRollback ==
    C7_Scenario => last.effect = "Handled" /\ DOMAIN blocks = {}

\* C7, amended: the rollback is Handled, the buffer holds the point of
\* slot 11 and the block store holds exactly that point's block.
C7_StoreKeepsRollbackPoint ==
    C7_Scenario =>
        /\ last.effect = "Handled"
        /\ chain_buffer = <<Specific(11, "a")>>
        /\ DOMAIN blocks = {Specific(11, "a")}
        /\ blocks[Specific(11, "a")] = Encode(Specific(11, "a"))
        /\ Len(SessionEvents) = 1

C7_Witness == C7_Scenario /\ last.effect = "Handled"

\* C8: when the finalize policy holds for an emitted point and the count
\* that includes it, that point is the last one emitted, on_roll_forward
\* answers DropOut, the tip is not reported, the loop is left and the attempt
\* ends with Ok; with "stop after 1 block" the session emits one block.
C8_FinalizeStops ==
    /\ last.op = "roll_forward" =>
           \A i \in 1..Len(Emitted) :
               should_finalize(finalize_config, Emitted[i].point,
                               last.pre_count + i) =>
                   /\ i = Len(Emitted)
                   /\ last.result = "DropOut"
                   /\ block_count = last.pre_count + i
    /\ last.result = "DropOut" =>
           /\ Emitted # <<>>
           /\ should_finalize(finalize_config, Emitted[Len(Emitted)].point,
                              block_count)
           /\ tip_reports = last.pre_tips
           /\ pc \in {"ended", "none"}
           /\ outcome = "Ok"
           /\ rstate \in {"Attempting", "StoppedOk"}
    /\ (finalize_config.kind = "count" /\ finalize_config.n = 1) =>
           /\ Len(SelectSeq(SessionEvents, IsBlock)) <= 1
           /\ Len(SelectSeq(SessionEvents, IsBlock)) = 1 <=>
                  last.result = "DropOut"

\* "stop after 1 block": the first confirmed block ended the session
C8_Witness ==
    /\ finalize_config.kind = "count"
    /\ last.result = "DropOut"
    /\ Len(SelectSeq(SessionEvents, IsBlock)) = 1
    /\ chain_buffer # <<>>
    /\ rstate = "StoppedOk"

\* C9: an attempt that ended with a fatal (Other) failure or with a clean
\* stop is the last one: the wrapper returns Ok without sleeping or starting
\* another attempt, so a fatal failure of the first attempt leaves exactly
\* one attempt.
C9_FatalStopsWithOk ==
    /\ outcome \in {"Other", "Ok"} =>
           /\ pc \in {"ended", "none"}
           /\ pc = "ended" => rstate = "Attempting"
           /\ pc = "none" => rstate = "StoppedOk"
           /\ Len(delays) = attempts - 1
    /\ rstate = "StoppedOk" => outcome \in {"Other", "Ok"}
    /\ rstate = "StoppedErr" => outcome = "Recoverable"

C9_Witness ==
    /\ rstate = "StoppedOk"
    /\ outcome = "Other"
    /\ attempts = 1
    /\ delays = <<>>

\* C10: when the wrapper gives up it has made max_retries attempts, all failed
\* with Recoverable, and slept 1, 2, 4, ... seconds (unit 1, factor 2), each
\* capped at max_backoff; with 3 attempts: 1, 2, 4 capped.
C10_BackoffThenError ==
    /\ \A i \in 1..Len(delays) : delays[i] = Min(Pow(2, i - 1), max_backoff)
    /\ rstate = "BackingOff" => Len(delays) = attempts
    /\ rstate = "StoppedErr" =>
           /\ attempts = max_retries
           /\ Len(delays) = max_retries
           /\ outcome = "Recoverable"
           /\ (max_retries = 3 /\ max_backoff = 60) => delays = <<1, 2, 4>>
           /\ (max_retries = 3 /\ max_backoff = 3) => delays = <<1, 2, 3>>

C10_Witness ==
    /\ rstate = "StoppedErr"
    /\ attempts = 3
    /\ delays = <<1, 2, 3>>

(***************************************************************************)
(* Retry wrapper as a state machine.                                       *)
(***************************************************************************)
Stopped == {"StoppedOk", "StoppedErr"}

\* the transitions of the wrapper; an attempt that panicked returns nothing
RetryTransition ==
    \/ /\ rstate = "Attempting" /\ rstate' = "StoppedOk"
       /\ pc = "ended" /\ outcome \in {"Ok", "Other"}
    \/ /\ rstate = "Attempting" /\ rstate' = "BackingOff"
       /\ pc = "ended" /\ outcome = "Recoverable"
       /\ Len(delays') = attempts
    \/ /\ rstate = "BackingOff" /\ rstate' = "Attempting"
       /\ attempts < max_retries /\ attempts' = attempts + 1
    \/ /\ rstate = "BackingOff" /\ rstate' = "StoppedErr"
       /\ attempts = max_retries /\ Len(delays) = max_retries
    \/ rstate = "Attempting" /\ pc = "ended" /\ outcome = "Panic"

RetryStep ==
    /\ rstate \notin Stopped
    /\ rstate' # rstate => RetryTransition
    \* an attempt starts only when the one before has returned and its
    \* delay has been slept
    /\ attempts' # attempts =>
          /\ attempts' = attempts + 1
          /\ rstate = "BackingOff" /\ pc = "none" /\ Len(delays) = attempts
          /\ pc' = "setup"
    \* only the running attempt moves
    /\ (pc' # pc /\ attempts' = attempts) => rstate = "Attempting"

\* every attempt comes back with a result
AttemptsReturn ==
    [](rstate = "Attempting" =>
          <>(pc = "ended" /\ outcome \in {"Ok", "Other", "Recoverable"}))

\* C11: the retry wrapper takes only its listed transitions, its Stopped
\* states are never left, Stopped(Err) follows max_retries recoverable
\* failures, an attempt starts only after the previous one returned and its
\* delay elapsed, and when every attempt returns the wrapper reaches
\* Stopped(Ok) or Stopped(Err).
C11_RetryTerminates ==
    /\ [][RetryStep]_vars
    /\ AttemptsReturn => <>(rstate \in Stopped)

\* the wrapper stopped with an error after its last attempt and its delay
C11_Witness ==
    /\ rstate = "StoppedErr"
    /\ attempts = ChainsyncMaxRetries
    /\ Len(delays) = ChainsyncMaxRetries

(***************************************************************************)
(* Failures of the session loop.                                           *)
(***************************************************************************)
TransportOrigins == {"request_next", "recv_while_must_reply"}

\* a failure inside on_roll_forward / on_rollback that the code returns
ReturnedOrigins == {"decode", "sink"}

\* the failures the loop classifies as it is said to: transport failures
\* are Recoverable, decode and sink failures are Other, the attempt is over
C12_ReturnedFailuresClassified ==
    /\ origin \in TransportOrigins => outcome = "Recoverable"
    /\ origin \in ReturnedOrigins => outcome = "Other"
    /\ origin \in TransportOrigins \cup ReturnedOrigins => pc \in {"ended", "none"}

\* C12: a failure of request_next or of the receive after Await ends the
\* attempt as Recoverable; a decode failure, a sink failure or an internal
\* invariant violation inside on_roll_forward / on_rollback ends it as
\* Other; after either no further message is processed in the attempt.
C12_ClassifiedByOrigin ==
    /\ C12_ReturnedFailuresClassified
    /\ origin = "missing_block" => outcome = "Other" /\ pc \in {"ended", "none"}

(***************************************************************************)
(* Session bootstrap.                                                      *)
(***************************************************************************)
Bootstrapped == boot.handshake = "Accepted" /\ boot.intersect = "Some"

\* the attempt is over with `res`, it asked the chain-sync client for no
\* message and the sink received nothing since the attempt began
EndedInBootstrap(res) ==
    /\ pc \in {"ended", "none"}
    /\ outcome = res
    /\ requests = 0
    /\ Len(events) = boot.events0

\* C13: the session loop starts only after the handshake was Accepted and
\* an intersection was found; another confirmation ends the attempt as
\* Other, a handshake transport error as Recoverable, no intersection as
\* Other, each without a message requested or an event emitted.
C13_BootstrapBeforeLoop ==
    /\ pc \in {"loop", "await"} => Bootstrapped
    /\ (requests > 0 \/ Len(events) > boot.events0) => Bootstrapped
    /\ boot.handshake = "Refused" => EndedInBootstrap("Other")
    /\ boot.handshake = "Err" => EndedInBootstrap("Recoverable")
    /\ boot.intersect = "None" => EndedInBootstrap("Other")

\* a second attempt, begun after the first one emitted a block, is refused
\* at the handshake
C13_Witness ==
    /\ attempts = 2
    /\ boot.events0 > 0
    /\ boot.handshake = "Refused"
    /\ origin = "do_handshake"
    /\ outcome = "Other"

(***************************************************************************)
(* Repeated announcement.                                                  *)
(***************************************************************************)
\* C14: a RollForward for a point the block store already holds is a fatal
\* invariant violation: the attempt ends as Other, the store keeps the
\* entries it had and the point is not appended to the buffer again.
C14_DuplicateIsFatal ==
    (last.op = "roll_forward" /\ last.point \in last.pre_blocks) =>
        /\ last.result = "Other"
        /\ outcome = "Other"
        /\ last.pushed = last.pre_buffer
        /\ DOMAIN blocks = last.pre_blocks

(***************************************************************************)
(* Observer state across attempts.                                         *)
(***************************************************************************)
BlockEvents(evs) == {i \in 1..Len(evs) : IsBlock(evs[i])}

\* C15: the observer of an attempt starts with an empty buffer, an empty
\* store and block_count = 0, so what it holds and what it emitted stem
\* from the messages of this attempt only: nothing buffered by an earlier
\* attempt is emitted unless the peer delivers it again.
C15_FreshObserverPerAttempt ==
    Bootstrapped =>
        /\ requests = 0 =>
              chain_buffer = <<>> /\ blocks = EmptyMap /\ block_count = 0
        /\ Len(chain_buffer) <= requests
        /\ Cardinality(DOMAIN blocks) <= requests
        /\ block_count <= requests
        /\ block_count = Cardinality(BlockEvents(SessionEvents))
        /\ last.op # "none" =>
              /\ last.attempt = attempts
              /\ \A i \in BlockEvents(Emitted) :
                    Emitted[i].point \in Range(last.pushed)

\* the first attempt buffered a block and failed; the second attempt was
\* given one block, which it buffered without emitting anything
C15_Witness ==
    /\ attempts = 2
    /\ min_depth = 1
    /\ msgs = 2
    /\ requests = 1
    /\ events = <<>>
    /\ last.op = "roll_forward"
    /\ last.result = "Proceed"
    /\ Len(chain_buffer) = 1

(***************************************************************************)
(* Block lookup of the ready points.                                       *)
(***************************************************************************)
\* C16: for roll-forwards with non-decreasing slots interleaved with
\* rollbacks, every point pop_with_depth returns has its bytes in the store:
\* the "required block not found in memory" failure is never reached.
C16_ReadyBlocksStored ==
    last.op = "roll_forward" =>
        /\ Range(last.ready) \subseteq last.pre_blocks \cup {last.point}
        /\ last.result # "Panic"
        /\ origin # "missing_block"

(***************************************************************************)
(* What a RollBackward message leaves alone.                               *)
(***************************************************************************)
\* C17: a RollBackward message is answered with Proceed or with an Other
\* failure, never with DropOut; it leaves block_count as it was, emits no
\* confirmed-block event, does not evaluate the finalize policy and does
\* not report the tip.
C17_RollbackConfirmsNothing ==
    last.op = "rollback" =>
        /\ last.result \in {"Proceed", "Other"}
        /\ last.result = "Other" => outcome = "Other" /\ origin = "sink"
        /\ origin # "finalize"
        /\ block_count = last.pre_count
        /\ BlockEvents(Emitted) = {}
        /\ tip_reports = last.pre_tips

\* a rollback to the very point the finalize policy names goes on
C17_Witness ==
    /\ last.op = "rollback"
    /\ finalize_config.kind = "point"
    /\ should_finalize(finalize_config, last.point, block_count)
    /\ last.result = "Proceed"
    /\ pc = "loop"

(***************************************************************************)
(* Tip reports.                                                            *)
(***************************************************************************)
\* the events of the last message are the blocks of its ready points, in
\* the order pop_with_depth returned them
EmittedAllReady ==
    /\ Len(Emitted) = Len(last.ready)
    /\ \A i \in 1..Len(Emitted) :
          IsBlock(Emitted[i]) /\ Emitted[i].point = last.ready[i]

\* C18: the tip is reported exactly once for a RollForward message that
\* ends with Proceed, after all its ready points were emitted, and not at
\* all for one that ends with DropOut or with a failure.
C18_TipOncePerProceed ==
    last.op = "roll_forward" =>
        /\ last.result = "Proceed" =>
              tip_reports = last.pre_tips + 1 /\ EmittedAllReady
        /\ last.result # "Proceed" => tip_reports = last.pre_tips

\* a second report, made by a message that confirmed a block
C18_Witness ==
    /\ last.op = "roll_forward"
    /\ last.result = "Proceed"
    /\ Len(last.ready) = 1
    /\ last.pre_tips = 1
    /\ tip_reports = 2

(***************************************************************************)
(* Size of the rollback buffer.                                            *)
(***************************************************************************)
\* C19: after every message the buffer holds at most min_depth points, so
\* the batch a RollForward pops has at most one point; with min_depth = 0
\* the buffer is empty between messages and a block is emitted by the
\* RollForward that announced it.
C19_BufferWithinDepth ==
    /\ Len(chain_buffer) <= min_depth
    /\ Len(last.ready) <= 1
    /\ (min_depth = 0 /\ last.op = "roll_forward"
            /\ last.result \in {"Proceed", "DropOut"}) =>
          Emitted = <<[kind |-> "block", point |-> last.point]>>

\* a full buffer of depth two, from which the message popped one point
C19_Witness ==
    /\ min_depth = MaxDepth
    /\ last.op = "roll_forward"
    /\ Len(last.pre_buffer) = min_depth
    /\ Len(last.ready) = 1
    /\ Len(chain_buffer) = min_depth

(***************************************************************************)
(* Rollback behind an emitted block.                                       *)
(***************************************************************************)
\* what the sink received in this attempt before the last message
PriorEvents == SubSeq(events, session_from + 1, last.pre_events)

\* the last message was answered as an out-of-scope rollback is: the
\* rollback event is the one thing written, or the write failed and the
\* attempt is over
AnnouncedOutOfScope ==
    /\ last.effect = "OutOfScope"
    /\ last.result = "Proceed" => Emitted = <<RollbackEvent(last.point)>>
    /\ last.result # "Proceed" =>
          Emitted = <<>> /\ origin = "sink" /\ pc \in {"ended", "none"}

\* C20 as stated: a RollBackward to p that arrives after a block with a
\* slot greater than p's was emitted in the attempt is out of scope, and
\* its rollback event precedes every later confirmed-block event.
C20_LateRollbackOutOfScope ==
    (/\ last.op = "rollback"
     /\ \E i \in BlockEvents(PriorEvents) :
           slot_or_default(PriorEvents[i].point) > slot_or_default(last.point))
    => AnnouncedOutOfScope

\* the block was emitted after every rollback event of the attempt
EmittedSinceRollback(i) ==
    \A j \in (i + 1)..Len(PriorEvents) : ~IsRollback(PriorEvents[j])

\* C20: a RollBackward to p that arrives after a block with a slot greater
\* than p's was emitted, and no rollback event followed that block, is out
\* of scope, and its rollback event precedes every later confirmed-block
\* event.
C20_LateRollbackAfterLiveBlock ==
    (/\ last.op = "rollback"
     /\ \E i \in BlockEvents(PriorEvents) :
           /\ slot_or_default(PriorEvents[i].point) > slot_or_default(last.point)
           /\ EmittedSinceRollback(i))
    => AnnouncedOutOfScope

\* a rollback to a point behind the block emitted just before it
C20_Witness ==
    /\ last.op = "rollback"
    /\ last.point # Origin
    /\ Len(PriorEvents) > 0
    /\ IsBlock(PriorEvents[Len(PriorEvents)])
    /\ slot_or_default(PriorEvents[Len(PriorEvents)].point)
          > slot_or_default(last.point)
    /\ last.effect = "OutOfScope"
    /\ Emitted = <<RollbackEvent(last.point)>>

=============================================================================
